---- MODULE Spec2Model ----
(***************************************************************************)
(* Model of the remote deployment orchestration of the container-service   *)
(* sample: ContainerDeployer / ACRContainerDeployer of src/example.py and  *)
(* ACRContainerDeployer of src/deployers/acr_container_deployer.py.        *)
(*                                                                         *)
(* Text (Python str) is a sequence of tokens, each token a TLA+ string: a  *)
(* literal fragment of the source ("chmod 600 ", "Stdout:"), one character *)
(* ("\n", "/", "{") or an opaque word that contains none of the characters *)
(* the code inspects.  Received bytes (the session transcript) are         *)
(* sequences of integers 0..255, decoded as UTF-8 the way bytes.decode     *)
(* does.                                                                   *)
(***************************************************************************)
EXTENDS Naturals, Sequences, FiniteSets, TLC

\* ------------------------------------------------------------------ bounds
\* longest captured stdout buffer, in bytes
MaxOutLen == 2
\* longest captured stderr buffer, in bytes
MaxErrLen == 1
\* longest template, in segments (a segment is a literal, a replacement field
\* or an escaped brace), of the rendering-only specification
MaxSegs == 5

\* ------------------------------------------------------------ text helpers
RECURSIVE Flatten(_)
Flatten(ss) ==
    IF ss = <<>> THEN <<>> ELSE Head(ss) \o Flatten(Tail(ss))

\* all sequences over S of length 0..n
SeqsUpTo(S, n) ==
    UNION {[1..k -> S] : k \in 0..n}

\* the index of the last occurrence of c in s, 0 when there is none
LastIndexOf(s, c) ==
    LET I == {i \in 1..Len(s) : s[i] = c}
    IN  IF I = {} THEN 0 ELSE CHOOSE i \in I : \A j \in I : j <= i

\* needle occurs in hay as a contiguous run
Contains(hay, needle) ==
    \E i \in 1..(Len(hay) + 1) :
        /\ i + Len(needle) - 1 <= Len(hay)
        /\ SubSeq(hay, i, i + Len(needle) - 1) = needle

\* s.split(sep)[-1] for a one-character sep: what follows the last sep
LastSegment(s, sep) ==
    SubSeq(s, LastIndexOf(s, sep) + 1, Len(s))

\* os.path.basename (posixpath): what follows the last "/"
Basename(p) ==
    LastSegment(p, "/")

\* the one non-ASCII character of the model, U+00E9
NonAscii == {"U+E9"}

\* str.encode('ascii') raises UnicodeEncodeError on a character outside ASCII
AsciiEncodable(s) ==
    \A i \in 1..Len(s) : s[i] \notin NonAscii

\* ---------------------------------------------------- bytes.decode('utf-8')
IsCont(x) ==
    x >= 128 /\ x <= 191

\* length of the well-formed UTF-8 sequence that starts at b[i], 0 when the
\* bytes there are ill-formed (the strict decoder raises UnicodeDecodeError)
Utf8SeqLen(b, i) ==
    LET n  == Len(b)
        b1 == b[i]
    IN  IF b1 < 128 THEN 1
        ELSE IF b1 >= 194 /\ b1 <= 223
        THEN IF i + 1 <= n /\ IsCont(b[i+1]) THEN 2 ELSE 0
        ELSE IF b1 >= 224 /\ b1 <= 239
        THEN IF /\ i + 2 <= n
                /\ IsCont(b[i+1]) /\ IsCont(b[i+2])
                /\ (b1 = 224 => b[i+1] >= 160)
                /\ (b1 = 237 => b[i+1] <= 159)
             THEN 3 ELSE 0
        ELSE IF b1 >= 240 /\ b1 <= 244
        THEN IF /\ i + 3 <= n
                /\ IsCont(b[i+1]) /\ IsCont(b[i+2]) /\ IsCont(b[i+3])
                /\ (b1 = 240 => b[i+1] >= 144)
                /\ (b1 = 244 => b[i+1] <= 143)
             THEN 4 ELSE 0
        ELSE 0

\* the code point of the well-formed sequence of k bytes at b[i]
CodePoint(b, i, k) ==
    IF k = 1 THEN b[i]
    ELSE IF k = 2 THEN (b[i] - 192) * 64 + (b[i+1] - 128)
    ELSE IF k = 3
    THEN (b[i] - 224) * 4096 + (b[i+1] - 128) * 64 + (b[i+2] - 128)
    ELSE (b[i] - 240) * 262144 + (b[i+1] - 128) * 4096
         + (b[i+2] - 128) * 64 + (b[i+3] - 128)

\* the character token of a code point
Chr(cp) ==
    CASE cp = 10  -> "\n"
      [] cp = 97  -> "a"
      [] cp = 233 -> "U+E9"
      [] OTHER    -> "U+"

RECURSIVE Utf8DecodeFrom(_, _)
Utf8DecodeFrom(b, i) ==
    IF i > Len(b) THEN [ok |-> TRUE, text |-> <<>>]
    ELSE LET k == Utf8SeqLen(b, i)
         IN  IF k = 0 THEN [ok |-> FALSE, text |-> <<>>]
             ELSE LET r == Utf8DecodeFrom(b, i + k)
                  IN  IF r.ok
                      THEN [ok |-> TRUE,
                            text |-> <<Chr(CodePoint(b, i, k))>> \o r.text]
                      ELSE r

\* output.decode('utf-8'): ok is FALSE when it raises UnicodeDecodeError
Utf8Decode(b) ==
    Utf8DecodeFrom(b, 1)

\* ------------------------------------------------------ str.split, str.join
\* s.split(sep): the pieces between the occurrences of sep, empty ones kept
RECURSIVE Split(_, _)
Split(s, sep) ==
    LET I == {i \in 1..Len(s) : s[i] = sep}
    IN  IF I = {} THEN <<s>>
        ELSE LET i == CHOOSE x \in I : \A y \in I : x <= y
             IN  <<SubSeq(s, 1, i - 1)>> \o Split(SubSeq(s, i + 1, Len(s)), sep)

\* sep.join(pieces)
RECURSIVE Join(_, _)
Join(sep, pieces) ==
    IF pieces = <<>> THEN <<>>
    ELSE IF Len(pieces) = 1 THEN pieces[1]
    ELSE pieces[1] \o <<sep>> \o Join(sep, Tail(pieces))

\* the indentation '    {}'.format(line) puts before every line
Indent == "    "

IndentLine(line) ==
    <<Indent>> \o line

\* what _format_proc_output(header, output) does: raised is "none" or the
\* exception that leaves it, text is what it printed
format_proc_output(header, output) ==
    IF output = <<>> THEN [raised |-> "none", text |-> <<>>]
    ELSE LET d == Utf8Decode(output)
         IN  IF ~d.ok THEN [raised |-> "UnicodeDecodeError", text |-> <<>>]
             ELSE LET lines == Split(d.text, "\n")
                      block == Join("\n", [i \in 1..Len(lines) |-> IndentLine(lines[i])])
                  IN  [raised |-> "none",
                       text   |-> <<header, "\n">> \o block \o <<"\n", "\n">>]

\* ---------------------------------------------------------- str.format(**kw)
\* The keyword arguments mount_shares passes to format.
FieldNames == {"storageacct", "sharename", "username", "password"}

\* One replacement field of the template, t[i] = "{" and t[i+1] # "{": stop is
\* the index of its closing "}", 0 when there is none or another "{" comes
\* first (ValueError in both cases).
FieldStop(t, i) ==
    LET C == {j \in (i+1)..Len(t) : t[j] = "}"}
    IN  IF C = {} THEN 0
        ELSE LET j == CHOOSE x \in C : \A y \in C : x <= y
             IN  IF \E k \in (i+1)..(j-1) : t[k] = "{" THEN 0 ELSE j

\* the value substituted for the field named by the tokens name: a keyword
\* argument is looked up by its name, an empty name is the positional
\* argument 0, of which there is none, anything else is an unknown key
FieldValue(name, kw) ==
    IF name = <<>> THEN [raised |-> "IndexError", text |-> <<>>]
    ELSE IF Len(name) = 1 /\ name[1] \in DOMAIN kw
    THEN [raised |-> "none", text |-> kw[name[1]]]
    ELSE [raised |-> "KeyError", text |-> <<>>]

\* t.format(**kw) read from t[i] on: "{{" and "}}" are the escapes of "{" and
\* "}", "{name}" is replaced by str(kw[name]), which is not scanned again, a
\* single "}" is a ValueError, any other token is copied
RECURSIVE StrFormatFrom(_, _, _)
StrFormatFrom(t, i, kw) ==
    IF i > Len(t) THEN [raised |-> "none", text |-> <<>>]
    ELSE LET piece ==
                 IF t[i] = "{"
                 THEN IF i < Len(t) /\ t[i+1] = "{"
                      THEN [raised |-> "none", text |-> <<"{">>, next |-> i + 2]
                      ELSE LET j == FieldStop(t, i)
                           IN  IF j = 0
                               THEN [raised |-> "ValueError", text |-> <<>>, next |-> i + 1]
                               ELSE LET v == FieldValue(SubSeq(t, i + 1, j - 1), kw)
                                    IN  [raised |-> v.raised, text |-> v.text, next |-> j + 1]
                 ELSE IF t[i] = "}"
                 THEN IF i < Len(t) /\ t[i+1] = "}"
                      THEN [raised |-> "none", text |-> <<"}">>, next |-> i + 2]
                      ELSE [raised |-> "ValueError", text |-> <<>>, next |-> i + 1]
                 ELSE [raised |-> "none", text |-> <<t[i]>>, next |-> i + 1]
         IN  IF piece.raised # "none" THEN [raised |-> piece.raised, text |-> <<>>]
             ELSE LET rest == StrFormatFrom(t, piece.next, kw)
                  IN  IF rest.raised # "none" THEN rest
                      ELSE [raised |-> "none", text |-> piece.text \o rest.text]

StrFormat(t, kw) ==
    StrFormatFrom(t, 1, kw)

\* ------------------------------------------------------------------ inputs
\* The deployer classes: ContainerDeployer and ACRContainerDeployer of
\* example.py, ACRContainerDeployer of deployers/acr_container_deployer.py.
Variants == {"plain", "acr_example", "acr_pkg"}

IsACR(v) ==
    v \in {"acr_example", "acr_pkg"}

\* docker image references (--image): with no "/" and with several
Images == {<<"simple-docker">>, <<"reg.io", "/", "team", "/", "app">>}

\* what container_service.get_key_path() returns
KeyPaths ==
    {<<"/", "home", "/", "id_rsa">>, <<"id_rsa">>, <<"keys", "/", "U+E9">>}

\* what container_service.master_ssh_login() returns
Addresses == {<<"azureuser@master1">>, <<"azureuser@master2">>}

\* the storage helper's fields read by mount_shares
Storages ==
    {[account_name |-> <<"acct1">>, default_share |-> <<"share1">>, key |-> <<"pw1">>],
     [account_name |-> <<"acct1">>, default_share |-> <<"share1">>,
      key |-> <<"p", "{", "username", "}">>]}

\* the registry helper's fields read by mount_shares
Registries ==
    {[name |-> <<"user1">>, default_name |-> <<"containersample">>]}

\* the segments of a template file: text, the four replacement fields and
\* the two escaped braces
Segments ==
    {<<"x">>,
     <<"{", "storageacct", "}">>, <<"{", "sharename", "}">>,
     <<"{", "username", "}">>, <<"{", "password", "}">>,
     <<"{", "{">>, <<"}", "}">>}

\* every template of at most n segments
TemplatesUpTo(n) ==
    {Flatten(ss) : ss \in SeqsUpTo(Segments, n)}

\* the template with the four placeholders, as the mount script has them
MountTemplate ==
    <<"x", "{", "storageacct", "}", "x", "{", "sharename", "}", "\n",
      "x", "{", "username", "}", "x", "{", "password", "}", "\n">>

\* the templates cifsMountTemplate.sh holds in the deployment specification
DeployTemplates ==
    {MountTemplate,
     <<"{", "{">> \o MountTemplate \o <<"}", "}">>,
     MountTemplate \o <<"{", "other", "}">>,
     MountTemplate \o <<"}">>}

\* the byte values of a transcript: "\n", "a", and the two bytes of U+00E9,
\* each of which alone is ill-formed UTF-8
TranscriptBytes == {10, 97, 195, 169}

\* ------------------------------------------------------------------- state
VARIABLES
    variant,            \* the deployer class constructed
    docker_image,       \* self.docker_image
    key_path,           \* container_service.get_key_path()
    storage,            \* self.storage
    container_registry, \* self.container_registry
    template_file,      \* content of cifsMountTemplate.sh
    scratch,            \* cifsMount.sh: [content, open]
    pc,                 \* position in deploy / mount_shares
    registry_image_name,\* local of deploy
    setup_image_args,   \* arguments of the setup_image call, <<>> before it
    key_file,           \* local of mount_shares
    address,            \* local of scp_to_cluster_master
    copy_call,          \* the last copy command: [local, dest, data, src_open,
                        \* status], status <<>> while it runs
    copy_count,         \* copy commands started
    session,            \* the ssh session: [opens, open_failed, releases,
                        \* terminated]
    stdin_writes,       \* the proc.stdin.write calls, in order
    communicate_input,  \* input of proc.communicate, <<>> before it
    transcript,         \* out, err of mount_shares: [captured, out, err]
    printed,            \* standard output of the process
    tracebacks,         \* traceback.print_exc() calls
    launch_call,        \* the container-launch call: [fn, positional, keyword]
    exit_status,        \* <<>> while running, <<n>> after sys.exit(n)
    raised,             \* the exception that left deploy, "none" if none
    events              \* the steps taken, in order: [op, phase, arg]

vars ==
    <<variant, docker_image, key_path, storage, container_registry,
      template_file, scratch, pc, registry_image_name, setup_image_args,
      key_file, address, copy_call, copy_count, session, stdin_writes,
      communicate_input, transcript, printed, tracebacks, launch_call,
      exit_status, raised, events>>

\* what construction fixes and no step changes
inputs ==
    <<variant, docker_image, key_path, storage, container_registry, template_file>>

NoCall == [fn |-> "none", positional |-> <<>>, keyword |-> <<>>]

NoCopy ==
    [local |-> <<>>, dest |-> <<>>, data |-> <<>>, src_open |-> FALSE, status |-> <<>>]

\* the state of the locals and of the outside world before deploy() is called;
\* cifsMount.sh may be left over from an earlier run
InitRun ==
    /\ scratch = [content |-> <<"stale">>, open |-> FALSE]
    /\ registry_image_name = <<>>
    /\ setup_image_args = <<>>
    /\ key_file = <<>>
    /\ address = <<>>
    /\ copy_call = NoCopy
    /\ copy_count = 0
    /\ session = [opens |-> 0, open_failed |-> FALSE, releases |-> 0,
                  terminated |-> FALSE]
    /\ stdin_writes = <<>>
    /\ communicate_input = <<>>
    /\ transcript = [captured |-> FALSE, out |-> <<>>, err |-> <<>>]
    /\ printed = <<>>
    /\ tracebacks = 0
    /\ launch_call = NoCall
    /\ exit_status = <<>>
    /\ raised = "none"
    /\ events = <<>>

Init ==
    /\ variant \in Variants
    /\ docker_image \in Images
    /\ key_path \in KeyPaths
    /\ storage \in {st \in Storages : st.key = <<"pw1">>}
    /\ container_registry \in Registries
    /\ template_file \in DeployTemplates
    /\ pc = "deploy"
    /\ InitRun

Event(op, phase, arg) ==
    [op |-> op, phase |-> phase, arg |-> arg]

\* RegistryImageName taking the first path segment, docker_image.split('/')[0]
RegistryImageName_first_segment(image) ==
    LET stops == {i \in 1..Len(image) : image[i] = "/"}
        stop  == IF stops = {} THEN Len(image) + 1
                 ELSE CHOOSE i \in stops : \A j \in stops : i <= j
    IN  SubSeq(image, 1, stop - 1)

\* ------------------------------------------------------------------ deploy
\* registry_image_name = self.docker_image.split('/')[-1]
RegistryImageName(image) ==
    LastSegment(image, "/")

\* the registry helper as an argument of a call
RegistryHelper(reg) ==
    <<"ContainerRegistryHelper:">> \o reg.name

\* container_registry.get_docker_repo_tag(name): the registry-qualified
\* reference of the image staged under name
get_docker_repo_tag(reg, name) ==
    reg.name \o <<".azurecr.io", "/">> \o name

\* ContainerDeployer.deploy of example.py: the launch call, with the bare
\* image reference
PlainLaunchCall(image) ==
    [fn |-> "deploy_container_from_registry",
     positional |-> <<image>>, keyword |-> <<>>]

\* ACRLaunchCall of example.py with the registry-local name passed untagged
ACRLaunchCall_untagged(v, reg, name) ==
    IF v = "acr_example"
    THEN [fn |-> "deploy_container_from_registry",
          positional |-> <<name, RegistryHelper(reg)>>,
          keyword |-> <<>>]
    ELSE [fn |-> "deploy_container",
          positional |-> <<>>,
          keyword |-> << <<"private_registry_helper", RegistryHelper(reg)>> >>]

\* ACRContainerDeployer.deploy: the launch call after mount_shares
ACRLaunchCall(v, reg, name) ==
    IF v = "acr_example"
    THEN [fn |-> "deploy_container_from_registry",
          positional |-> <<get_docker_repo_tag(reg, name), RegistryHelper(reg)>>,
          keyword |-> <<>>]
    ELSE [fn |-> "deploy_container",
          positional |-> <<>>,
          keyword |-> << <<"private_registry_helper", RegistryHelper(reg)>> >>]

\* ContainerDeployer.deploy: calls the launch operation at once
deploy_plain ==
    /\ pc = "deploy"
    /\ variant = "plain"
    /\ launch_call' = PlainLaunchCall(docker_image)
    /\ events' = Append(events, Event("launch", "call", <<>>))
    /\ pc' = "launch_wait"
    /\ UNCHANGED <<inputs, scratch, registry_image_name, setup_image_args,
                   key_file, address, copy_call, copy_count, session,
                   stdin_writes, communicate_input, transcript, printed,
                   tracebacks, exit_status, raised>>

\* ACRContainerDeployer.deploy, up to the call of setup_image
deploy_setup_image ==
    /\ pc = "deploy"
    /\ IsACR(variant)
    /\ registry_image_name' = RegistryImageName(docker_image)
    /\ setup_image_args' = <<docker_image, registry_image_name'>>
    /\ events' = Append(events, Event("setup_image", "call", <<>>))
    /\ pc' = "setup_image_wait"
    /\ UNCHANGED <<inputs, scratch, key_file, address, copy_call, copy_count,
                   session, stdin_writes, communicate_input, transcript,
                   printed, tracebacks, launch_call, exit_status, raised>>

\* setup_image returns, or raises: deploy has no handler, the exception
\* leaves it
setup_image_return ==
    /\ pc = "setup_image_wait"
    /\ \E ok \in BOOLEAN :
        /\ pc' = IF ok THEN "mount_shares" ELSE "failed"
        /\ raised' = IF ok THEN raised ELSE "RegistryError"
    /\ events' = Append(events, Event("setup_image", "return", <<>>))
    /\ UNCHANGED <<inputs, scratch, registry_image_name, setup_image_args,
                   key_file, address, copy_call, copy_count, session,
                   stdin_writes, communicate_input, transcript, printed,
                   tracebacks, launch_call, exit_status>>

\* RenderKwargs with the credentials exchanged
RenderKwargs_swapped(v, st, reg) ==
    [storageacct |-> st.account_name,
     sharename   |-> st.default_share,
     username    |-> st.key,
     password    |-> IF v = "acr_pkg" THEN reg.name ELSE reg.default_name]

\* ------------------------------------------------------------ mount_shares
\* the keyword arguments of the template's format call
RenderKwargs(v, st, reg) ==
    [storageacct |-> st.account_name,
     sharename   |-> st.default_share,
     username    |-> IF v = "acr_pkg" THEN reg.name ELSE reg.default_name,
     password    |-> st.key]

\* cifsMount_template.read().format(...)
Render(v, t, st, reg) ==
    StrFormat(t, RenderKwargs(v, st, reg))

\* os.path.join(SCRIPTS_DIR, name) in the package, the bare name in example.py
ScriptPath(v, name) ==
    IF v = "acr_pkg" THEN <<"scripts", "/", name>> ELSE <<name>>

\* mount_shares_render of a mount_shares that swallows what format raised and
\* goes on to the transfers
mount_shares_render_swallowed ==
    /\ pc = "mount_shares"
    /\ printed' = printed \o <<"Mounting file share on all machines in cluster...", "\n">>
    /\ key_file' = Basename(key_path)
    /\ LET r == Render(variant, template_file, storage, container_registry)
       IN  /\ scratch' = [content |-> r.text, open |-> FALSE]
           /\ raised' = r.raised
           /\ pc' = "scp"
    /\ events' = Append(events, Event("render", "done", <<>>))
    /\ UNCHANGED <<inputs, registry_image_name, setup_image_args, address,
                   copy_call, copy_count, session, stdin_writes,
                   communicate_input, transcript, tracebacks, launch_call,
                   exit_status>>

\* mount_shares_render of a mount_shares that opens cifsMount.sh without a with
\* block and goes on to the transfers before closing it: the text is still in
\* the file object's buffer
mount_shares_render_unclosed ==
    /\ pc = "mount_shares"
    /\ printed' = printed \o <<"Mounting file share on all machines in cluster...", "\n">>
    /\ key_file' = Basename(key_path)
    /\ LET r == Render(variant, template_file, storage, container_registry)
       IN  /\ scratch' = [content |-> <<>>, open |-> r.raised = "none"]
           /\ raised' = r.raised
           /\ pc' = IF r.raised = "none" THEN "scp" ELSE "failed"
    /\ events' = Append(events, Event("render", "done", <<>>))
    /\ UNCHANGED <<inputs, registry_image_name, setup_image_args, address,
                   copy_call, copy_count, session, stdin_writes,
                   communicate_input, transcript, tracebacks, launch_call,
                   exit_status>>

\* mount_shares up to the first transfer: the banner, key_file, and the with
\* block that opens the template and cifsMount.sh ('w' truncates it), writes
\* the rendered text and closes both, also when format raises
mount_shares_render ==
    /\ pc = "mount_shares"
    /\ printed' = printed \o <<"Mounting file share on all machines in cluster...", "\n">>
    /\ key_file' = Basename(key_path)
    /\ LET r == Render(variant, template_file, storage, container_registry)
       IN  /\ scratch' = [content |-> r.text, open |-> FALSE]
           /\ raised' = r.raised
           /\ pc' = IF r.raised = "none" THEN "scp" ELSE "failed"
    /\ events' = Append(events, Event("render", "done", <<>>))
    /\ UNCHANGED <<inputs, registry_image_name, setup_image_args, address,
                   copy_call, copy_count, session, stdin_writes,
                   communicate_input, transcript, tracebacks, launch_call,
                   exit_status>>

\* ScpLocalPath with the companion script copied before the rendered one
ScpLocalPath_companion_first(k, v, kp) ==
    CASE k = 1 -> ScriptPath(v, "mountShares.sh")
      [] k = 2 -> ScriptPath(v, "cifsMount.sh")
      [] OTHER -> kp

\* --------------------------------------------------- scp_to_cluster_master
\* the local_path of the k-th transfer of mount_shares
ScpLocalPath(k, v, kp) ==
    CASE k = 1 -> ScriptPath(v, "cifsMount.sh")
      [] k = 2 -> ScriptPath(v, "mountShares.sh")
      [] OTHER -> kp

\* ScpRemotePath of a mount_shares that copies the key, too, with an empty
\* remote name
ScpRemotePath_always_empty(k, kf) ==
    <<>>

\* the remote_path of the k-th transfer of mount_shares
ScpRemotePath(k, kf) ==
    IF k = 3 THEN kf ELSE <<>>

\* '{}:./{}'.format(address, remote_path)
CopyDestination(a, remote) ==
    a \o <<":./">> \o remote

\* what the handler of CalledProcessError prints after the trace
Remediation(a) ==
    <<"It looks like an scp command failed.", "\n",
      "Make sure you can ssh into the server without prompts.", "\n",
      "Please run the following command to try it:", "\n",
      "ssh ">> \o a \o <<"\n">>

\* the number of transfers of mount_shares
Transfers == {1, 2, 3}

\* scp_to_cluster_master up to the start of the copy command: the address is
\* asked of the cluster at every call
scp_call ==
    /\ pc = "scp"
    /\ copy_count + 1 \in Transfers
    /\ \E a \in Addresses :
        /\ address' = a
        /\ LET k == copy_count + 1
               local == ScpLocalPath(k, variant, key_path)
           IN  /\ copy_call' =
                     [local |-> local,
                      dest  |-> CopyDestination(a, ScpRemotePath(k, key_file)),
                      data  |-> IF k = 1 THEN scratch.content ELSE local,
                      src_open |-> IF k = 1 THEN scratch.open ELSE FALSE,
                      status |-> <<>>]
               /\ events' = Append(events, Event("scp", "call", local))
    /\ copy_count' = copy_count + 1
    /\ pc' = "scp_wait"
    /\ UNCHANGED <<inputs, scratch, registry_image_name, setup_image_args,
                   key_file, session, stdin_writes, communicate_input,
                   transcript, printed, tracebacks, launch_call, exit_status,
                   raised>>

\* where mount_shares goes on after a transfer that succeeded
AfterTransfer(n) ==
    IF n + 1 \in Transfers THEN "scp" ELSE "cluster_ssh"

\* scp_return with a handler that tries the copy again instead of exiting
scp_return_retry ==
    /\ pc = "scp_wait"
    /\ \E status \in {0, 1} :
        /\ copy_call' = [copy_call EXCEPT !.status = <<status>>]
        /\ IF status = 0
           THEN /\ pc' = AfterTransfer(copy_count)
                /\ UNCHANGED <<printed, tracebacks, copy_count>>
           ELSE /\ tracebacks' = tracebacks + 1
                /\ printed' = printed \o Remediation(address)
                /\ copy_count' = copy_count - 1
                /\ pc' = "scp"
        /\ UNCHANGED <<exit_status, raised>>
    /\ events' = Append(events, Event("scp", "return", copy_call.local))
    /\ UNCHANGED <<inputs, scratch, registry_image_name, setup_image_args,
                   key_file, address, session, stdin_writes,
                   communicate_input, transcript, launch_call>>

\* scp_return with a handler that prints the hint and forgets sys.exit(1)
scp_return_no_exit ==
    /\ pc = "scp_wait"
    /\ \E status \in {0, 1} :
        /\ copy_call' = [copy_call EXCEPT !.status = <<status>>]
        /\ pc' = AfterTransfer(copy_count)
        /\ IF status = 0
           THEN UNCHANGED <<printed, tracebacks>>
           ELSE /\ tracebacks' = tracebacks + 1
                /\ printed' = printed \o Remediation(address)
        /\ UNCHANGED <<exit_status, raised>>
    /\ events' = Append(events, Event("scp", "return", copy_call.local))
    /\ UNCHANGED <<inputs, scratch, registry_image_name, setup_image_args,
                   key_file, address, copy_count, session, stdin_writes,
                   communicate_input, transcript, launch_call>>

\* the copy command ends: status 0 returns to mount_shares, any other status
\* is CalledProcessError, whose handler prints and calls sys.exit(1)
scp_return ==
    /\ pc = "scp_wait"
    /\ \E status \in {0, 1} :
        /\ copy_call' = [copy_call EXCEPT !.status = <<status>>]
        /\ IF status = 0
           THEN /\ pc' = AfterTransfer(copy_count)
                /\ UNCHANGED <<printed, tracebacks, exit_status, raised>>
           ELSE /\ tracebacks' = tracebacks + 1
                /\ printed' = printed \o Remediation(address)
                /\ exit_status' = <<1>>
                /\ raised' = "SystemExit"
                /\ pc' = "failed"
    /\ events' = Append(events, Event("scp", "return", copy_call.local))
    /\ UNCHANGED <<inputs, scratch, registry_image_name, setup_image_args,
                   key_file, address, copy_count, session, stdin_writes,
                   communicate_input, transcript, launch_call>>

\* ----------------------------------------------------- the ssh session
\* the release routine of the object cluster_ssh() returns: it ends the
\* remote process
cluster_ssh_exit(s) ==
    [s EXCEPT !.terminated = TRUE]

\* what cluster_ssh() does when the remote shell cannot be established: the
\* policy of a failed transfer, the trace and the hint, then exit status 1
cluster_ssh_failure(a) ==
    [tracebacks |-> 1, text |-> Remediation(a), status |-> <<1>>]

\* leaving the with block of mount_shares, by its end or by an exception,
\* calls the release routine once
WithExit(s) ==
    cluster_ssh_exit([s EXCEPT !.releases = s.releases + 1])

\* SessionCommand with the agent started after the key is registered
SessionCommand_agent_late(k, kf) ==
    CASE k = 1 -> <<"chmod", " ", "600", " ">> \o kf \o <<"\n">>
      [] k = 2 -> <<"ssh-add", " ">> \o kf \o <<"\n">>
      [] k = 3 -> <<"eval", " ", "ssh-agent", " ", "-s", "\n">>
      [] OTHER -> <<"sh", " ", "mountShares.sh", " ", "~/">> \o kf \o <<"\n">>

\* the k-th command mount_shares writes to proc.stdin
SessionCommand(k, kf) ==
    CASE k = 1 -> <<"chmod", " ", "600", " ">> \o kf \o <<"\n">>
      [] k = 2 -> <<"eval", " ", "ssh-agent", " ", "-s", "\n">>
      [] k = 3 -> <<"ssh-add", " ">> \o kf \o <<"\n">>
      [] OTHER -> <<"sh", " ", "mountShares.sh", " ", "~/">> \o kf \o <<"\n">>

\* the commands of the with block
Commands == {1, 2, 3, 4}

\* the name of the command announced on standard output before it is written
Announced(k) ==
    k = 4

\* print('Running mountShares on remote master. Cmd:', cmd, sep='\n')
Announcement(cmd) ==
    <<"Running mountShares on remote master. Cmd:", "\n">> \o cmd \o <<"\n">>

\* with self.container_service.cluster_ssh() as proc: the call
cluster_ssh_call ==
    /\ pc = "cluster_ssh"
    /\ events' = Append(events, Event("cluster_ssh", "call", <<>>))
    /\ pc' = "cluster_ssh_wait"
    /\ UNCHANGED <<inputs, scratch, registry_image_name, setup_image_args,
                   key_file, address, copy_call, copy_count, session,
                   stdin_writes, communicate_input, transcript, printed,
                   tracebacks, launch_call, exit_status, raised>>

\* cluster_ssh_return of a deploy that catches what mount_shares raised when
\* the session could not be opened, and goes on to the launch call
cluster_ssh_return_caught ==
    /\ pc = "cluster_ssh_wait"
    /\ \E ok \in BOOLEAN, a \in Addresses :
        IF ok
        THEN /\ session' = [session EXCEPT !.opens = session.opens + 1]
             /\ pc' = "write"
             /\ UNCHANGED <<printed, tracebacks, exit_status, raised>>
        ELSE LET f == cluster_ssh_failure(a)
             IN  /\ tracebacks' = tracebacks + f.tracebacks
                 /\ printed' = printed \o f.text
                 /\ pc' = "launch"
                 /\ session' = [session EXCEPT !.open_failed = TRUE]
                 /\ UNCHANGED <<exit_status, raised>>
    /\ events' = Append(events, Event("cluster_ssh", "return", <<>>))
    /\ UNCHANGED <<inputs, scratch, registry_image_name, setup_image_args,
                   key_file, address, copy_call, copy_count, stdin_writes,
                   communicate_input, transcript, launch_call>>

\* cluster_ssh() returns the session, or fails: mount_shares has no handler
\* around it, so what cluster_ssh raised leaves mount_shares and deploy
cluster_ssh_return ==
    /\ pc = "cluster_ssh_wait"
    /\ \E ok \in BOOLEAN, a \in Addresses :
        IF ok
        THEN /\ session' = [session EXCEPT !.opens = session.opens + 1]
             /\ pc' = "write"
             /\ UNCHANGED <<printed, tracebacks, exit_status, raised>>
        ELSE LET f == cluster_ssh_failure(a)
             IN  /\ tracebacks' = tracebacks + f.tracebacks
                 /\ printed' = printed \o f.text
                 /\ exit_status' = f.status
                 /\ raised' = "SystemExit"
                 /\ pc' = "failed"
                 /\ session' = [session EXCEPT !.open_failed = TRUE]
    /\ events' = Append(events, Event("cluster_ssh", "return", <<>>))
    /\ UNCHANGED <<inputs, scratch, registry_image_name, setup_image_args,
                   key_file, address, copy_call, copy_count, stdin_writes,
                   communicate_input, transcript, launch_call>>

\* AfterWrite of a with block that keeps waiting for a further command to write
AfterWrite_loop(k) ==
    "write"

\* where the with block goes on after the k-th write
AfterWrite(k) ==
    IF k + 1 \in Commands THEN "write" ELSE "communicate"

\* WriteRaises of a session closed by hand at the end of the block only
WriteRaises_no_release(exc) ==
    /\ raised' = exc
    /\ pc' = "failed"
    /\ UNCHANGED <<stdin_writes, session>>

\* what a write that raises leaves behind: the with block is left through the
\* release routine and the exception leaves mount_shares and deploy
WriteRaises(exc) ==
    /\ session' = WithExit(session)
    /\ raised' = exc
    /\ pc' = "failed"
    /\ UNCHANGED <<stdin_writes>>

\* one proc.stdin.write(cmd.encode('ascii')) of the with block: encode raises
\* on a key file name outside ASCII, write raises when the pipe is broken
stdin_write ==
    /\ pc = "write"
    /\ Len(stdin_writes) + 1 \in Commands
    /\ LET k   == Len(stdin_writes) + 1
           cmd == SessionCommand(k, key_file)
       IN  /\ printed' = IF Announced(k) THEN printed \o Announcement(cmd) ELSE printed
           /\ events' = Append(events, Event("write", "done", cmd))
           /\ IF ~AsciiEncodable(cmd)
              THEN WriteRaises("UnicodeEncodeError")
              ELSE \E ok \in BOOLEAN :
                      IF ok
                      THEN /\ stdin_writes' = Append(stdin_writes, cmd)
                           /\ pc' = AfterWrite(k)
                           /\ UNCHANGED <<session, raised>>
                      ELSE WriteRaises("BrokenPipeError")
    /\ UNCHANGED <<inputs, scratch, registry_image_name, setup_image_args,
                   key_file, address, copy_call, copy_count, communicate_input,
                   transcript, tracebacks, launch_call, exit_status>>

\* the input of proc.communicate
ExitLine == <<"exit", "\n">>

\* communicate_call that closes the session without the exit line
communicate_call_no_exit ==
    /\ pc = "communicate"
    /\ events' = Append(events, Event("communicate", "call", <<>>))
    /\ pc' = "communicate_wait"
    /\ UNCHANGED <<inputs, scratch, registry_image_name, setup_image_args,
                   key_file, address, copy_call, copy_count, session,
                   stdin_writes, communicate_input, transcript, printed,
                   tracebacks, launch_call, exit_status, raised>>

\* out, err = proc.communicate(input=b'exit\n'): the call
communicate_call ==
    /\ pc = "communicate"
    /\ communicate_input' = ExitLine
    /\ events' = Append(events, Event("communicate", "call", <<>>))
    /\ pc' = "communicate_wait"
    /\ UNCHANGED <<inputs, scratch, registry_image_name, setup_image_args,
                   key_file, address, copy_call, copy_count, session,
                   stdin_writes, transcript, printed, tracebacks, launch_call,
                   exit_status, raised>>

\* line 93 of the package's mount_shares, absent from example.py
FinishedBanner(v) ==
    IF v = "acr_pkg" THEN <<"Finished mounting shares.", "\n">> ELSE <<>>

\* communicate returns once the remote process has ended, with what it wrote;
\* the with block ends, through the release routine
communicate_return ==
    /\ pc = "communicate_wait"
    /\ \E out \in SeqsUpTo(TranscriptBytes, MaxOutLen),
          err \in SeqsUpTo(TranscriptBytes, MaxErrLen) :
        transcript' = [captured |-> TRUE, out |-> out, err |-> err]
    /\ session' = WithExit([session EXCEPT !.terminated = TRUE])
    /\ printed' = printed \o FinishedBanner(variant)
    /\ events' = Append(events, Event("communicate", "return", <<>>))
    /\ pc' = "report_stdout"
    /\ UNCHANGED <<inputs, scratch, registry_image_name, setup_image_args,
                   key_file, address, copy_call, copy_count, stdin_writes,
                   communicate_input, tracebacks, launch_call, exit_status,
                   raised>>

\* ------------------------------------------------------------- reporting
\* one call of _format_proc_output from mount_shares: what it prints is
\* printed, what it raises leaves mount_shares and deploy
Report(header, output, next) ==
    LET r == format_proc_output(header, output)
    IN  /\ printed' = printed \o r.text
        /\ raised' = r.raised
        /\ pc' = IF r.raised = "none" THEN next ELSE "failed"
        /\ events' = Append(events, Event("format", "done", <<header>>))
        /\ UNCHANGED <<inputs, scratch, registry_image_name, setup_image_args,
                       key_file, address, copy_call, copy_count, session,
                       stdin_writes, communicate_input, transcript, tracebacks,
                       launch_call, exit_status>>

\* self._format_proc_output('Stdout:', out)
report_stdout ==
    /\ pc = "report_stdout"
    /\ Report("Stdout:", transcript.out, "report_stderr")

\* self._format_proc_output('Stderr:', err), the last statement of mount_shares
report_stderr ==
    /\ pc = "report_stderr"
    /\ Report("Stderr:", transcript.err, "launch")

\* ---------------------------------------------------------------- launch
\* ACRContainerDeployer.deploy after mount_shares returned: the launch call
deploy_launch ==
    /\ pc = "launch"
    /\ launch_call' = ACRLaunchCall(variant, container_registry, registry_image_name)
    /\ events' = Append(events, Event("launch", "call", <<>>))
    /\ pc' = "launch_wait"
    /\ UNCHANGED <<inputs, scratch, registry_image_name, setup_image_args,
                   key_file, address, copy_call, copy_count, session,
                   stdin_writes, communicate_input, transcript, printed,
                   tracebacks, exit_status, raised>>

\* the launch call returns and deploy with it, or raises
launch_return ==
    /\ pc = "launch_wait"
    /\ \E ok \in BOOLEAN :
        /\ pc' = IF ok THEN "done" ELSE "failed"
        /\ raised' = IF ok THEN raised ELSE "LaunchError"
    /\ events' = Append(events, Event("launch", "return", <<>>))
    /\ UNCHANGED <<inputs, scratch, registry_image_name, setup_image_args,
                   key_file, address, copy_call, copy_count, session,
                   stdin_writes, communicate_input, transcript, printed,
                   tracebacks, launch_call, exit_status>>

\* --------------------------------------------------------- specifications
Next ==
    \/ deploy_plain
    \/ deploy_setup_image
    \/ setup_image_return
    \/ mount_shares_render
    \/ scp_call
    \/ scp_return
    \/ cluster_ssh_call
    \/ cluster_ssh_return
    \/ stdin_write
    \/ communicate_call
    \/ communicate_return
    \/ report_stdout
    \/ report_stderr
    \/ deploy_launch
    \/ launch_return

\* one deployment, from the constructed deployer to the end of deploy()
Spec ==
    Init /\ [][Next]_vars

\* the steps of deploy() that make a collaborator call or take its return
CallsAndReturns ==
    \/ deploy_plain
    \/ deploy_setup_image
    \/ setup_image_return
    \/ scp_call
    \/ scp_return
    \/ cluster_ssh_call
    \/ cluster_ssh_return
    \/ stdin_write
    \/ communicate_call
    \/ communicate_return
    \/ deploy_launch
    \/ launch_return

\* the steps of mount_shares that only compute, by what they do to pc: the
\* rendering with block and the two reports each go on to the next statement
\* or leave with what they raised
ComputationLeft ==
    \/ pc = "mount_shares" /\ pc' \in {"scp", "failed"}
    \/ pc = "report_stdout" /\ pc' \in {"report_stderr", "failed"}
    \/ pc = "report_stderr" /\ pc' \in {"launch", "failed"}

\* one deployment in which every step that can be taken is eventually taken:
\* the code is synchronous, and every blocking collaborator call returns
SpecFair ==
    Init /\ [][Next]_vars /\ WF_vars(CallsAndReturns) /\ WF_pc(ComputationLeft)

\* the with block of mount_shares that renders the template, on every template
\* of at most MaxSegs segments
InitRender ==
    /\ variant \in {"acr_example", "acr_pkg"}
    /\ docker_image = <<"simple-docker">>
    /\ key_path = <<"id_rsa">>
    /\ storage \in Storages
    /\ container_registry \in Registries
    /\ template_file \in TemplatesUpTo(MaxSegs)
    /\ pc = "mount_shares"
    /\ InitRun

SpecRender ==
    InitRender /\ [][mount_shares_render]_vars

\* ------------------------------------------------------------------ claims
\* the address a copy destination '<address>:./<name>' names
DestAddress(dest) ==
    LET I == {i \in 1..Len(dest) : dest[i] = ":./"}
    IN  IF I = {} THEN dest
        ELSE SubSeq(dest, 1, (CHOOSE i \in I : \A j \in I : i <= j) - 1)

\* the events of operation op
EventsOf(op) ==
    SelectSeq(events, LAMBDA e : e.op = op)

\* a copy command of a registry-backed deploy has exited non-zero
TransferFailed ==
    IsACR(variant) /\ copy_call.status = <<1>>

\* C1: in the registry-backed deploy, once a copy command has exited non-zero
\* the process has printed the hint with 'ssh <address>' for the address of
\* that very transfer and has exited with status 1; the failed transfer is the
\* last step taken: no further transfer, no session opened, nothing written,
\* no launch call.
C1_TransferFailureExits ==
    TransferFailed =>
        /\ pc = "failed"
        /\ exit_status = <<1>>
        /\ raised = "SystemExit"
        /\ tracebacks = 1
        /\ Contains(printed, <<"ssh ">> \o DestAddress(copy_call.dest) \o <<"\n">>)
        /\ events[Len(events)] = Event("scp", "return", copy_call.local)
        /\ Len(EventsOf("scp")) = 2 * copy_count
        /\ EventsOf("cluster_ssh") = <<>>
        /\ session.opens = 0
        /\ stdin_writes = <<>>
        /\ launch_call = NoCall

\* the second transfer failed, on the second master address
C1_Witness ==
    /\ TransferFailed
    /\ copy_count = 2
    /\ DestAddress(copy_call.dest) = <<"azureuser@master2">>
    /\ exit_status = <<1>>

\* the names of the four commands, in the order the session needs them
CommandOrder == <<"chmod", "eval", "ssh-add", "sh">>

\* C2: the writes to the session's input are at every moment the first few of
\* chmod (of the copied key), agent start, ssh-add (of the key), mount script
\* invocation, in that order, and a run that succeeds has made all four and
\* no more.
C2_FourCommandsInOrder ==
    IsACR(variant) =>
        /\ Len(stdin_writes) <= 4
        /\ \A i \in 1..Len(stdin_writes) :
            /\ Head(stdin_writes[i]) = CommandOrder[i]
            /\ i \in {1, 3} => Contains(stdin_writes[i], <<" ">> \o Basename(key_path) \o <<"\n">>)
            /\ i = 2 => Contains(stdin_writes[i], <<"ssh-agent">>)
            /\ i = 4 => Contains(stdin_writes[i], <<"mountShares.sh">>)
        /\ (pc = "done" \/ transcript.captured) => Len(stdin_writes) = 4

\* a registry-backed run that succeeded
C2_Witness ==
    /\ IsACR(variant)
    /\ pc = "done"
    /\ Len(stdin_writes) = 4

\* control is inside the with block of the session
InWithBlock ==
    pc \in {"write", "communicate", "communicate_wait"}

\* C3: once the session has been opened and the with block has been left, by
\* its end or by a write that raised, the release routine has been called
\* exactly once; before that it has not been called.
C3_ReleasedExactlyOnce ==
    session.releases = IF session.opens = 1 /\ ~InWithBlock THEN 1 ELSE 0

\* the third write raised and the session was released
C3_Witness ==
    /\ raised = "BrokenPipeError"
    /\ Len(stdin_writes) = 2
    /\ session.opens = 1
    /\ session.releases = 1

\* the session was opened and the with block has been left
SessionLeft ==
    session.opens = 1 /\ ~InWithBlock

\* C4 as stated: whenever a session has been opened, on every exit path from
\* it, a write that raises included, the final 'exit' line has been sent, the
\* remote process has terminated and the transcript has been captured.
C4_ExitSentOnEveryPath ==
    SessionLeft =>
        /\ communicate_input = ExitLine
        /\ session.terminated
        /\ transcript.captured

\* C4 amended: whenever a session has been opened, on every exit path from it
\* the remote process has terminated; the final 'exit' line has been sent and
\* the transcript captured exactly when all four writes succeeded, and when a
\* write raised no 'exit' line was sent and no transcript was captured.
C4_ExitSentAfterFourWrites ==
    SessionLeft =>
        /\ session.terminated
        /\ IF Len(stdin_writes) = 4
           THEN communicate_input = ExitLine /\ transcript.captured
           ELSE /\ communicate_input = <<>>
                /\ ~transcript.captured
                /\ raised \in {"BrokenPipeError", "UnicodeEncodeError"}

\* the fourth write raised: the session is left without the exit line
C4_Witness ==
    /\ SessionLeft
    /\ Len(stdin_writes) = 3
    /\ raised = "BrokenPipeError"
    /\ session.terminated
    /\ ~transcript.captured

Step(e) ==
    <<e.op, e.phase,
      CASE e.op = "scp"    -> Basename(e.arg)
        [] e.op = "write"  -> <<Head(e.arg)>>
        [] e.op = "format" -> e.arg
        [] OTHER           -> <<>> >>

\* the one order of the steps of a registry-backed run
LinearOrder ==
    << <<"setup_image", "call", <<>> >>, <<"setup_image", "return", <<>> >>,
       <<"render", "done", <<>> >>,
       <<"scp", "call", <<"cifsMount.sh">> >>, <<"scp", "return", <<"cifsMount.sh">> >>,
       <<"scp", "call", <<"mountShares.sh">> >>, <<"scp", "return", <<"mountShares.sh">> >>,
       <<"scp", "call", Basename(key_path)>>, <<"scp", "return", Basename(key_path)>>,
       <<"cluster_ssh", "call", <<>> >>, <<"cluster_ssh", "return", <<>> >>,
       <<"write", "done", <<"chmod">> >>, <<"write", "done", <<"eval">> >>,
       <<"write", "done", <<"ssh-add">> >>, <<"write", "done", <<"sh">> >>,
       <<"communicate", "call", <<>> >>, <<"communicate", "return", <<>> >>,
       <<"format", "done", <<"Stdout:">> >>, <<"format", "done", <<"Stderr:">> >>,
       <<"launch", "call", <<>> >>, <<"launch", "return", <<>> >> >>

\* C6: the steps of a registry-backed run are at every moment the first few
\* of one linear order: staging, one render, the transfers of the rendered
\* script, the companion script and the key file, one session opened, written
\* to four times and closed, the reports of stdout and stderr, the launch
\* call; every call is followed by its own return before the next step, and
\* the launch call is made only with the session closed and both reports
\* done (each non-empty buffer's report printed).
C6_LinearOrder ==
    IsACR(variant) =>
        /\ Len(events) <= Len(LinearOrder)
        /\ \A i \in 1..Len(events) : Step(events[i]) = LinearOrder[i]
        /\ launch_call # NoCall =>
            /\ session.opens = 1
            /\ session.releases = 1
            /\ session.terminated
            /\ transcript.captured
            /\ Len(EventsOf("format")) = 2
            /\ transcript.out # <<>> => Contains(printed, <<"Stdout:", "\n", Indent>>)
            /\ transcript.err # <<>> => Contains(printed, <<"Stderr:", "\n", Indent>>)

\* a registry-backed run that went through every step
C6_Witness ==
    /\ IsACR(variant)
    /\ pc = "done"
    /\ Len(events) = Len(LinearOrder)

\* the reporting step has been entered for stdout, for stderr
ReportedStdout ==
    Len(EventsOf("format")) >= 1

\* C7: for every transcript the session returns, the reporting step formats
\* stdout and then stderr without raising and never fails the deployment: no
\* exception leaves it, and once a transcript is captured the run can only
\* end after the launch call has been made.
C7_ReportingNeverFails ==
    transcript.captured =>
        /\ raised # "UnicodeDecodeError"
        /\ pc = "failed" => launch_call # NoCall
        /\ launch_call # NoCall =>
            /\ Len(EventsOf("format")) = 2
            /\ Step(EventsOf("format")[1])[3] = <<"Stdout:">>
            /\ Step(EventsOf("format")[2])[3] = <<"Stderr:">>

\* the first index of token c in s, Len(s) + 1 when there is none
FirstIndexOf(s, c) ==
    LET I == {i \in 1..Len(s) : s[i] = c}
    IN  IF I = {} THEN Len(s) + 1 ELSE CHOOSE i \in I : \A j \in I : i <= j

\* what the process printed for stdout: from the header 'Stdout:' up to the
\* header 'Stderr:' or the end
StdoutReport ==
    SubSeq(printed, FirstIndexOf(printed, "Stdout:"), FirstIndexOf(printed, "Stderr:") - 1)

\* the rows of a report format(label, b), given the number n of lines of b:
\* the header, n indented rows, a blank row (and the end of the last row)
ReportShape(report, label, n) ==
    LET rows == Split(report, "\n")
    IN  /\ Len(rows) = n + 3
        /\ rows[1] = <<label>>
        /\ \A i \in 2..(n + 1) : rows[i] # <<>> /\ Head(rows[i]) = Indent
        /\ rows[n + 2] = <<>>
        /\ rows[n + 3] = <<>>

\* C8: for all byte buffers b, format('Stdout:', b) prints nothing when b is
\* empty, and otherwise prints the header line, then exactly as many lines as
\* b has (b split at its newline bytes), each behind the same indentation,
\* then a blank line.
C8_FormatShape ==
    ReportedStdout =>
        IF transcript.out = <<>>
        THEN StdoutReport = <<>>
        ELSE ReportShape(StdoutReport, "Stdout:", Len(Split(transcript.out, 10)))

\* C8 on the buffers that are well-formed UTF-8, where the shape does hold
FormatShapeOfDecodable ==
    (ReportedStdout /\ Utf8Decode(transcript.out).ok) => C8_FormatShape

\* the values a launch call was given, positional and by keyword
LaunchArguments(c) ==
    {c.positional[i] : i \in 1..Len(c.positional)}
        \cup {c.keyword[i][2] : i \in 1..Len(c.keyword)}

Rendered ==
    EventsOf("render") # <<>>

\* the value of each placeholder: storage account name, share name, registry
\* login, storage key
PlaceholderValues ==
    [storageacct |-> storage.account_name,
     sharename   |-> storage.default_share,
     username    |-> IF variant = "acr_pkg" THEN container_registry.name
                     ELSE container_registry.default_name,
     password    |-> storage.key]

\* t[i..i+2] is one of the four placeholders
PlaceholderAt(t, i) ==
    /\ i + 2 <= Len(t)
    /\ t[i] = "{"
    /\ t[i+1] \in FieldNames
    /\ t[i+2] = "}"

\* the template with every placeholder replaced by its value and every other
\* token kept as it is
RECURSIVE SubstituteFrom(_, _, _)
SubstituteFrom(t, i, val) ==
    IF i > Len(t) THEN <<>>
    ELSE IF PlaceholderAt(t, i) THEN val[t[i+1]] \o SubstituteFrom(t, i + 3, val)
    ELSE <<t[i]>> \o SubstituteFrom(t, i + 1, val)

\* the template read with doubled braces as the escapes of single ones:
\* fields are the placeholders met, text is the template with the placeholders
\* replaced by their values and each doubled brace by a single one, ok is
\* FALSE when a brace is neither doubled nor part of a placeholder
RECURSIVE UnescapeFrom(_, _, _)
UnescapeFrom(t, i, val) ==
    IF i > Len(t) THEN [ok |-> TRUE, fields |-> {}, text |-> <<>>]
    ELSE IF i < Len(t) /\ t[i] \in {"{", "}"} /\ t[i+1] = t[i]
    THEN LET r == UnescapeFrom(t, i + 2, val)
         IN  [ok |-> r.ok, fields |-> r.fields, text |-> <<t[i]>> \o r.text]
    ELSE IF PlaceholderAt(t, i)
    THEN LET r == UnescapeFrom(t, i + 3, val)
         IN  [ok |-> r.ok, fields |-> r.fields \cup {t[i+1]},
              text |-> val[t[i+1]] \o r.text]
    ELSE LET r == UnescapeFrom(t, i + 1, val)
         IN  [ok |-> r.ok /\ t[i] \notin {"{", "}"}, fields |-> r.fields,
              text |-> <<t[i]>> \o r.text]

\* the template holds each of the four placeholders
HasFourPlaceholders(t) ==
    UnescapeFrom(t, 1, PlaceholderValues).fields = FieldNames

\* the exceptions with which str.format leaves the rendering
RenderErrors == {"KeyError", "ValueError", "IndexError"}

\* C10 as stated: given a template containing the four placeholders and a
\* value for each, render returns the template with the four values put
\* verbatim at the placeholder positions and no other text altered.
C10_NoOtherTextAltered ==
    (Rendered /\ HasFourPlaceholders(template_file)) =>
        /\ raised \notin RenderErrors
        /\ scratch.content = SubstituteFrom(template_file, 1, PlaceholderValues)

\* C10 amended: given a template that contains the four placeholders and whose
\* other braces are all doubled ('{{', '}}'), render returns the template with
\* the four values put verbatim at the placeholder positions, each doubled
\* brace replaced by a single one, and no other text altered.
C10_SubstitutedAndUnescaped ==
    LET u == UnescapeFrom(template_file, 1, PlaceholderValues)
    IN  (Rendered /\ u.ok /\ u.fields = FieldNames) =>
            /\ raised \notin RenderErrors
            /\ scratch.content = u.text
            /\ ~scratch.open

\* a template with the four placeholders and a doubled brace was rendered, with
\* a password that itself holds braces
C10_Witness ==
    /\ Rendered
    /\ HasFourPlaceholders(template_file)
    /\ Contains(template_file, <<"{", "{">>)
    /\ Contains(storage.key, <<"{">>)
    /\ raised = "none"
    /\ scratch.content # SubstituteFrom(template_file, 1, PlaceholderValues)

\* the rendering of the template raised
RenderFailed ==
    raised \in RenderErrors

\* C11: when rendering fails, the failure leaves deploy for its caller: the
\* process does not exit by itself, the template is not rendered again, and
\* no transfer, no session open and no launch call is made in that run.
C11_RenderFailurePropagates ==
    RenderFailed =>
        /\ pc = "failed"
        /\ exit_status = <<>>
        /\ tracebacks = 0
        /\ Len(EventsOf("render")) = 1
        /\ events[Len(events)] = Event("render", "done", <<>>)
        /\ copy_count = 0
        /\ copy_call = NoCopy
        /\ EventsOf("scp") = <<>>
        /\ EventsOf("cluster_ssh") = <<>>
        /\ session.opens = 0
        /\ stdin_writes = <<>>
        /\ launch_call = NoCall

\* a template with a fifth, unknown placeholder failed to render
C11_Witness ==
    /\ RenderFailed
    /\ raised = "KeyError"
    /\ Contains(template_file, <<"{", "other", "}">>)
    /\ pc = "failed"

\* how many times the step (op, phase) was taken
Count(op, phase) ==
    Len(SelectSeq(events, LAMBDA e : e.op = op /\ e.phase = phase))

\* how many times the copy of the file local was started
CopiesOf(local) ==
    Len(SelectSeq(events, LAMBDA e : e.op = "scp" /\ e.phase = "call" /\ e.arg = local))

\* an operation of the run has failed
SomethingFailed ==
    \/ raised # "none"
    \/ copy_call.status = <<1>>
    \/ session.open_failed

\* C12: in a run every operation happens at most once: one staging, one
\* render, one attempt for each of the three files, one session, one
\* transcript, one launch call; a session that has been released is never
\* written to again; and once an operation has failed no step follows it.
C12_AtMostOnce ==
    /\ [](/\ Count("setup_image", "call") <= 1
          /\ Count("render", "done") <= 1
          /\ \A e \in {events[i] : i \in 1..Len(events)} :
                e.op = "scp" => CopiesOf(e.arg) = 1
          /\ Count("scp", "call") <= 3
          /\ copy_count = Count("scp", "call")
          /\ Count("cluster_ssh", "call") <= 1
          /\ session.opens <= 1
          /\ Count("communicate", "return") <= 1
          /\ Count("launch", "call") <= 1)
    /\ [][/\ session.releases >= 1 =>
                /\ stdin_writes' = stdin_writes
                /\ communicate_input' = communicate_input
                /\ transcript' = transcript
                /\ session' = session
          /\ SomethingFailed => UNCHANGED vars]_vars

\* the second transfer failed and the run ended there, each file tried once
C12_Witness ==
    /\ copy_call.status = <<1>>
    /\ Count("scp", "call") = 2
    /\ pc = "failed"

\* C13: what the orchestrator does after the session has closed does not
\* depend on what the remote commands did or wrote: whatever the transcript,
\* both reports are made and the same launch call follows, with arguments
\* fixed by the deployer alone, and the process does not exit by itself; a run
\* can then only fail in the launch call itself.
C13_IndependentOfTranscript ==
    transcript.captured =>
        /\ exit_status = <<>>
        /\ raised \in {"none", "LaunchError"}
        /\ pc = "failed" => launch_call # NoCall
        /\ launch_call # NoCall =>
               launch_call = ACRLaunchCall(variant, container_registry,
                                           LastSegment(docker_image, "/"))

\* name is what follows the last "/" of ref, or all of ref when it has none
IsLastPathSegment(name, ref) ==
    /\ \A i \in 1..Len(name) : name[i] # "/"
    /\ \/ ref = name
       \/ /\ Len(ref) > Len(name)
          /\ SubSeq(ref, Len(ref) - Len(name), Len(ref)) = <<"/">> \o name

\* C14: a registry-backed deploy stages the image exactly once, as its very
\* first step (before the render and before any transfer), passing the image
\* reference and the part of it after its last "/" (all of it when it has no
\* "/"); when staging fails nothing else runs: no render, no transfer, no
\* session and no launch.
C14_StagingFirstOnce ==
    IsACR(variant) =>
        /\ Count("setup_image", "call") = (IF pc = "deploy" THEN 0 ELSE 1)
        /\ events # <<>> => events[1] = Event("setup_image", "call", <<>>)
        /\ pc # "deploy" =>
               /\ Len(setup_image_args) = 2
               /\ setup_image_args[1] = docker_image
               /\ IsLastPathSegment(setup_image_args[2], docker_image)
        /\ Count("setup_image", "return") = 0 =>
               /\ Len(events) <= 1
               /\ scratch.content = <<"stale">>
               /\ copy_count = 0
        /\ raised = "RegistryError" =>
               /\ pc = "failed"
               /\ \A i \in 1..Len(events) : events[i].op = "setup_image"
               /\ scratch = [content |-> <<"stale">>, open |-> FALSE]
               /\ copy_count = 0 /\ copy_call = NoCopy
               /\ session.opens = 0
               /\ stdin_writes = <<>>
               /\ ~transcript.captured
               /\ launch_call = NoCall

\* the image under a two-level path was staged as "app", and the deploy went
\* on to its launch call
C14_Witness ==
    /\ IsACR(variant)
    /\ Len(docker_image) > 1
    /\ setup_image_args = <<docker_image, <<"app">>>>
    /\ Count("scp", "call") = 3
    /\ launch_call # NoCall

\* deploy() has returned, or has been left by an exception or by sys.exit
Terminated ==
    pc \in {"done", "failed"}

\* C15: when every blocking call (staging, each copy, the session's opening
\* and closing, the launch) eventually returns, a deployment eventually
\* reaches a terminal state (deploy returned, exited, or left by an
\* exception) and stays there: nothing loops or retries.
C15_Terminates ==
    <>[]Terminated

\* a registry-backed deploy has gone through all its blocking calls, the
\* launch included, and has returned
C15_Witness ==
    /\ IsACR(variant)
    /\ pc = "done"
    /\ Count("launch", "return") = 1
    /\ Count("communicate", "return") = 1

\* the name a copy destination '<address>:./<name>' names
DestName(dest) ==
    LET I == {i \in 1..Len(dest) : dest[i] = ":./"}
    IN  IF I = {} THEN <<>>
        ELSE SubSeq(dest, (CHOOSE i \in I : \A j \in I : i <= j) + 1, Len(dest))

\* C16: every transfer goes to '<address>:./<name>'; the two scripts are
\* copied with an empty name, the key file with the basename of the local key
\* path, and that name is the one in the chmod command, in the ssh-add command
\* and, as '~/<name>', the sole argument of the mount-script invocation.
C16_KeyNameEverywhere ==
    (IsACR(variant) /\ copy_count >= 1) =>
        /\ copy_call.dest = address \o <<":./">> \o DestName(copy_call.dest)
        /\ copy_count \in {1, 2} => DestName(copy_call.dest) = <<>>
        /\ copy_count = 3 =>
               LET name == DestName(copy_call.dest)
               IN  /\ copy_call.local = key_path
                   /\ IsLastPathSegment(name, key_path)
                   /\ Len(stdin_writes) >= 1 =>
                          stdin_writes[1] = <<"chmod", " ", "600", " ">> \o name \o <<"\n">>
                   /\ Len(stdin_writes) >= 3 =>
                          stdin_writes[3] = <<"ssh-add", " ">> \o name \o <<"\n">>
                   /\ Len(stdin_writes) >= 4 =>
                          stdin_writes[4] = <<"sh", " ", "mountShares.sh", " ", "~/">>
                                            \o name \o <<"\n">>
        /\ Len(stdin_writes) >= 1 => copy_count = 3

\* the key /home/id_rsa went to azureuser@master1:./id_rsa and all four
\* commands were written
C16_Witness ==
    /\ IsACR(variant)
    /\ key_path = <<"/", "home", "/", "id_rsa">>
    /\ copy_call.dest = <<"azureuser@master1", ":./", "id_rsa">>
    /\ Len(stdin_writes) = 4

\* C17: before the first transfer starts, the rendering of this run has been
\* written to the scratch file in full and the file has been closed; the first
\* transfer reads that closed file, so it carries this run's rendered text,
\* never a part of it nor what an earlier run left there.
C17_ScratchClosedBeforeTransfer ==
    IsACR(variant) =>
        /\ ~scratch.open
        /\ ~Rendered =>
               /\ copy_count = 0
               /\ scratch.content = <<"stale">>
        /\ copy_count >= 1 =>
               LET u == UnescapeFrom(template_file, 1, PlaceholderValues)
               IN  /\ Rendered
                   /\ u.ok
                   /\ scratch.content = u.text
        /\ copy_count = 1 =>
               /\ ~copy_call.src_open
               /\ copy_call.data = scratch.content
               /\ copy_call.data # <<"stale">>
               /\ copy_call.local \in {<<"cifsMount.sh">>,
                                       <<"scripts", "/", "cifsMount.sh">>}

\* the first transfer has ended, and what it carried is the rendering of a
\* template with doubled braces
C17_Witness ==
    /\ IsACR(variant)
    /\ copy_count = 1
    /\ copy_call.status = <<0>>
    /\ Contains(template_file, <<"{", "{">>)
    /\ copy_call.data = UnescapeFrom(template_file, 1, PlaceholderValues).text
    /\ Len(copy_call.data) > 1
====
